---- MODULE Spec2Model ----
(***************************************************************************)
(* Fee lifecycle of the relayer: the gas configuration derived from a      *)
(* CosmosSdkConfig (crates/relayer/src/chain/cosmos/types/gas.rs), the     *)
(* dynamic gas price policy it carries, and the two eventual-consistency   *)
(* assertions of the test framework's ChainDriver                          *)
(* (tools/test-framework/src/chain/driver.rs).                             *)
(*                                                                         *)
(* Three specifications share the variables; each leaves the other         *)
(* components' variables at their idle values:                             *)
(*   GasSpec      GasConfig::from applied to every configuration           *)
(*   PriceSpec    the dynamic gas price across submissions and retries     *)
(*   VerifierSpec one call of assert_eventual_wallet_amount or of          *)
(*                assert_eventual_escrowed_amount_ics29                    *)
(* FairVerifierSpec is VerifierSpec with the loop's attempts scheduled.    *)
(***************************************************************************)
EXTENDS Integers, Sequences, FiniteSets, TLC

\* ------------------------------------------------------------------ bounds

\* Gas amounts offered to the configuration are multiples of GasUnit.
GasUnit == 200000
\* Largest multiple of GasUnit offered as a gas override.
MaxGasK == 3
\* Denominator of the rational that stands for an f64 price per gas unit.
PriceDen == 1000
\* Largest value of the fee type: stands for u128::MAX, so that u128 sums wrap
\* modulo U128Max + 1.
U128Max == 2
\* Largest dynamic gas price (in price units) and largest price ceiling.
MaxPrice == 6
\* Largest numerator range of the escalation multiplier: multipliers are the
\* rationals num / den with den in 1..2 and den <= num <= den * MaxMul.
MaxMul == 2
\* Submissions begun and escalations per submission that the model follows.
MaxSubmissions == 2
MaxRetries == 3

\* --------------------------------------------------------------- constants

\* gas.rs:9
DEFAULT_MAX_GAS == 400000

\* gas.rs:11
DEFAULT_FEE_GRANTER == ""

\* ------------------------------------------------------------------ Option

None == [some |-> FALSE, val |-> 0]

NoneStr == [some |-> FALSE, val |-> ""]

Some(v) == [some |-> TRUE, val |-> v]

\* Option::unwrap_or / unwrap_or_else
unwrap_or(o, d) == IF o.some THEN o.val ELSE d

Min(a, b) == IF a <= b THEN a ELSE b

Max(a, b) == IF a >= b THEN a ELSE b

\* ---------------------------------------------------------------- variables

VARIABLES
    config,         \* the CosmosSdkConfig handed to GasConfig::from
    gas_config,     \* the derived GasConfig, or NoGasConfig before derivation
    policy,         \* dynamic gas price policy: enabled, multiplier, max, base
    current_price,  \* price used by the current broadcast attempt
    prev_price,     \* price of the previous attempt of the same submission
    phase,          \* "idle" | "inflight": whether a submission is in progress
    submission,     \* number of logical submissions begun
    retries,        \* escalations of the submission in flight
    op,             \* "none" | "wallet" | "escrow": the assertion called
    token_amount,   \* token.amount, the target (wallet) or gross (escrow) amount
    recv_fee,       \* u128
    ack_fee,        \* u128
    timeout_fee,    \* u128
    overflow_checks,\* build profile: TRUE = u128 `+` panics on overflow, FALSE = wraps
    attempts,       \* attempt budget handed to assert_eventually_succeed
    tries,          \* invocations of the predicate so far
    queries,        \* balance queries issued so far
    observed,       \* result of the latest balance query
    last,           \* outcome of the latest predicate invocation
    pc,             \* "running" | "ok" | "exhausted" | "panicked"
    matched_at      \* wallet assertion: queries issued when a query first returned
                    \* token.amount, or 0 while none has

gasVars == <<config, gas_config>>

priceVars == <<policy, current_price, prev_price, phase, submission, retries>>

verifierVars ==
    <<op, token_amount, recv_fee, ack_fee, timeout_fee, overflow_checks, attempts,
      tries, queries, observed, last, pc, matched_at>>

vars == <<gasVars, priceVars, verifierVars>>

\* --------------------------------------------------- gas.rs: pure functions

\* calculate_fee(gas, price): one coin, quantity = ceil(gas * price), in the
\* price's denomination.  price.price is the rational price.num / PriceDen.
calculate_fee(gas, price) ==
    [denom |-> price.denom,
     amount |-> (gas * price.num + PriceDen - 1) \div PriceDen]

\* gas.rs:47-49
max_gas_from_config(cfg) == unwrap_or(cfg.max_gas, DEFAULT_MAX_GAS)

\* Mutant: the fallback of default_gas is the fixed default, not max_gas.
default_gas_falls_back_to_constant(cfg) == unwrap_or(cfg.default_gas, DEFAULT_MAX_GAS)

\* gas.rs:40-44
default_gas_from_config(cfg) ==
    unwrap_or(cfg.default_gas, max_gas_from_config(cfg))

\* gas.rs:52-54
max_gas_from_config_opt(cfg) == cfg.max_gas

\* GasMultiplier::default(), in tenths: the library default the configuration
\* falls back to.
DEFAULT_GAS_MULTIPLIER == 10

\* gas.rs:57-59.  Multipliers are counted in tenths.
gas_multiplier_from_config(cfg) == unwrap_or(cfg.gas_multiplier, DEFAULT_GAS_MULTIPLIER)

\* gas.rs:62-68
fee_granter_from_config(cfg) == unwrap_or(cfg.fee_granter, DEFAULT_FEE_GRANTER)

\* Mutant: the maximum fee is computed from default_gas instead of max_gas.
max_fee_from_default_gas(cfg) ==
    LET gas == default_gas_from_config(cfg)
    IN  [amount |-> <<calculate_fee(gas, cfg.gas_price)>>,
         gas_limit |-> gas,
         payer |-> "",
         granter |-> fee_granter_from_config(cfg)]

\* gas.rs:70-84
max_fee_from_config(cfg) ==
    LET max_gas == max_gas_from_config(cfg)
        max_fee_in_coins == calculate_fee(max_gas, cfg.gas_price)
        fee_granter == fee_granter_from_config(cfg)
    IN  [amount |-> <<max_fee_in_coins>>,
         gas_limit |-> max_gas,
         payer |-> "",
         granter |-> fee_granter]

\* gas.rs:24-36
GasConfigFrom(cfg) ==
    [derived |-> TRUE,
     default_gas |-> default_gas_from_config(cfg),
     max_gas |-> max_gas_from_config(cfg),
     gas_multiplier |-> gas_multiplier_from_config(cfg),
     gas_price |-> cfg.gas_price,
     max_fee |-> max_fee_from_config(cfg),
     fee_granter |-> fee_granter_from_config(cfg),
     dynamic_gas_price |-> cfg.dynamic_gas_price]

\* ----------------------------------------------- driver.rs: the predicates

\* driver.rs:37
WAIT_WALLET_AMOUNT_ATTEMPTS == 90

\* u128 `+` where the sum does not fit: the operation the build profile decides.
Overflows(a, b) == a + b > U128Max

\* u128 `+` without overflow checks: two's complement wrap.
WrappingAdd(a, b) == (a + b) % (U128Max + 1)

\* Amount is wider than u128 (a U256 behind checked_sub): the amounts the model
\* offers reach past the largest u128, far enough to hold a fee sum that
\* overflows u128.
AmountMax == U128Max + 2

Amounts == 0..AmountMax

Fees == 0..U128Max

\* query_balance fails (network or parse failure) ...
QueryError == -1

\* ... or has not been called yet.
NotQueried == -2

\* driver.rs:212-220: the collaborator answers with any amount or fails.
QueryResults == {QueryError} \cup Amounts

\* Outcome of one invocation of a predicate closure.  kind: "Ok" | "QueryErr" |
\* "Mismatch" | "SubErr" (the checked_sub error, with the operands lhs - rhs it
\* reports and the subtraction it comes from) | "Panic" | "None".
Outcome(kind, site, lhs, rhs) == [kind |-> kind, site |-> site, lhs |-> lhs, rhs |-> rhs]

NoOutcome == Outcome("None", "", 0, 0)

\* Amount::checked_sub
checked_sub(a, b) == IF b <= a THEN Some(a - b) ELSE None

\* Mutant: a balance above the target passes too.
BalanceAtLeastTarget(q, target) ==
    IF q = QueryError THEN Outcome("QueryErr", "", 0, 0)
    ELSE IF q >= target THEN Outcome("Ok", "", 0, 0)
    ELSE Outcome("Mismatch", "", q, target)

\* driver.rs:235-248: the closure of assert_eventual_wallet_amount, given the
\* answer q of its balance query.
BalanceEqualsTarget(q, target) ==
    IF q = QueryError THEN Outcome("QueryErr", "", 0, 0)
    ELSE IF q = target THEN Outcome("Ok", "", 0, 0)
    ELSE Outcome("Mismatch", "", q, target)

\* Mutant: the legacy formula forgets the timeout fee.
LegacyFeesWithoutTimeout(recv, ack, timeout) == WrappingAdd(recv, ack)

\* driver.rs:277,282: recv_fee + ack_fee + timeout_fee, evaluated left to right.
LegacyFees(recv, ack, timeout) == WrappingAdd(WrappingAdd(recv, ack), timeout)

\* driver.rs:287,292: max(recv_fee + ack_fee, timeout_fee)
CurrentFees(recv, ack, timeout) == Max(WrappingAdd(recv, ack), timeout)

\* An addition of driver.rs:277 overflows u128.
FeeSumOverflows(recv, ack, timeout) ==
    \/ Overflows(recv, ack)
    \/ Overflows(WrappingAdd(recv, ack), timeout)

\* driver.rs:272-307: the closure of assert_eventual_escrowed_amount_ics29,
\* given the answer q of its balance query.  The query comes first and `?`
\* returns its error before any arithmetic; with overflow checks (debug
\* profile) an overflowing `+` panics, without them it wraps.
EscrowPredicate(q, gross, recv, ack, timeout, checks) ==
    IF q = QueryError THEN Outcome("QueryErr", "", 0, 0)
    ELSE IF checks /\ FeeSumOverflows(recv, ack, timeout)
    THEN Outcome("Panic", "legacy", 0, 0)
    ELSE LET legacy_escrow == checked_sub(gross, LegacyFees(recv, ack, timeout))
             escrow == checked_sub(gross, CurrentFees(recv, ack, timeout))
         IN  IF ~legacy_escrow.some
             THEN Outcome("SubErr", "legacy", gross, LegacyFees(recv, ack, timeout))
             ELSE IF ~escrow.some
             THEN Outcome("SubErr", "current", gross, CurrentFees(recv, ack, timeout))
             ELSE IF q = legacy_escrow.val \/ q = escrow.val
             THEN Outcome("Ok", "", 0, 0)
             ELSE Outcome("Mismatch", "", q, gross)

\* Mutant: the budget of the comment above the constant ("around 60 seconds").
AttemptsArgSixty(which) == 2 * (WAIT_WALLET_AMOUNT_ATTEMPTS \div 3)

\* driver.rs:233 and 270: the attempt budget both assertions pass on.
AttemptsArg(which) == WAIT_WALLET_AMOUNT_ATTEMPTS

\* -------------------------------------- util::retry::assert_eventually_succeed

\* The bounded-retry primitive: the predicate is invoked until it succeeds or
\* the attempt budget is used up; every Err is retried alike, whatever it
\* reports.  A panic of the predicate unwinds through the loop.
RetryPc(outcome, tried, budget) ==
    IF outcome.kind = "Ok" THEN "ok"
    ELSE IF outcome.kind = "Panic" THEN "panicked"
    ELSE IF tried >= budget THEN "exhausted"
    ELSE "running"

\* One iteration of the loop: the predicate has been invoked with query answer q
\* and returned outcome.
RetryStep(q, outcome) ==
    /\ tries' = tries + 1
    /\ queries' = queries + 1
    /\ observed' = q
    /\ last' = outcome
    /\ pc' = RetryPc(outcome, tries + 1, attempts)
    /\ matched_at' = IF op = "wallet" /\ matched_at = 0 /\ q = token_amount
                     THEN queries + 1 ELSE matched_at
    /\ UNCHANGED <<op, token_amount, recv_fee, ack_fee, timeout_fee, overflow_checks,
                   attempts>>

\* ------------------------------------------------- dynamic gas price policy

\* The price of the first attempt of every new logical submission.
initial_price(pol) == pol.base

\* Mutant: escalation forgets the ceiling.
escalate_uncapped(pol, p) ==
    IF ~pol.enabled THEN pol.base
    ELSE (p * pol.multiplier.num) \div pol.multiplier.den

\* The price of the next attempt after an underpriced or out-of-gas failure:
\* min(current * multiplier, max), the product rounded down to a price unit; a
\* disabled policy keeps the static configured price.
escalate(pol, p) ==
    IF ~pol.enabled THEN pol.base
    ELSE Min((p * pol.multiplier.num) \div pol.multiplier.den, pol.max)

\* ------------------------------------------------------------------ GasSpec

GasChoices == {k * GasUnit : k \in 0..MaxGasK} \cup {DEFAULT_MAX_GAS}

OptGas == {None} \cup {Some(g) : g \in GasChoices}

GasPrices == {[denom |-> d, num |-> n] : d \in {"uatom", "stake"}, n \in {0, 1, 25}}

OptGranter == {NoneStr, Some(""), Some("cosmos1granter")}

DynamicChoices == {[enabled |-> e, multiplier |-> 11, max |-> 600] : e \in BOOLEAN}

Configs ==
    [default_gas : OptGas, max_gas : OptGas, gas_multiplier : {None, Some(15)},
     gas_price : GasPrices, fee_granter : OptGranter, dynamic_gas_price : DynamicChoices]

NoGasConfig == [derived |-> FALSE]

GasIdle ==
    /\ config = [default_gas |-> None, max_gas |-> None, gas_multiplier |-> None,
                 gas_price |-> [denom |-> "uatom", num |-> 25],
                 fee_granter |-> NoneStr,
                 dynamic_gas_price |-> [enabled |-> FALSE, multiplier |-> 11, max |-> 600]]
    /\ gas_config = NoGasConfig

PriceIdle ==
    /\ policy = [enabled |-> FALSE, multiplier |-> [num |-> 1, den |-> 1], max |-> 0, base |-> 0]
    /\ current_price = 0
    /\ prev_price = 0
    /\ phase = "idle"
    /\ submission = 0
    /\ retries = 0

VerifierIdle ==
    /\ op = "none"
    /\ token_amount = 0
    /\ recv_fee = 0
    /\ ack_fee = 0
    /\ timeout_fee = 0
    /\ overflow_checks = FALSE
    /\ attempts = 0
    /\ tries = 0
    /\ queries = 0
    /\ observed = NotQueried
    /\ last = NoOutcome
    /\ pc = "idle"
    /\ matched_at = 0

GasInit ==
    /\ config \in Configs
    /\ gas_config = NoGasConfig
    /\ PriceIdle
    /\ VerifierIdle

\* GasConfig::from(&config)
From ==
    /\ ~gas_config.derived
    /\ gas_config' = GasConfigFrom(config)
    /\ UNCHANGED <<config, priceVars, verifierVars>>

GasNext == From

GasSpec == GasInit /\ [][GasNext]_vars

\* ------------------------------------------------------------- VerifierSpec

\* A call of one of the two assertions: the wallet assertion takes a target
\* token, the escrow assertion a gross token and three u128 fees, under either
\* build profile.
VerifierInit ==
    /\ GasIdle
    /\ PriceIdle
    /\ op \in {"wallet", "escrow"}
    /\ token_amount \in Amounts
    /\ recv_fee \in (IF op = "escrow" THEN Fees ELSE {0})
    /\ ack_fee \in (IF op = "escrow" THEN Fees ELSE {0})
    /\ timeout_fee \in (IF op = "escrow" THEN Fees ELSE {0})
    /\ overflow_checks \in (IF op = "escrow" THEN BOOLEAN ELSE {FALSE})
    /\ attempts = AttemptsArg(op)
    /\ tries = 0
    /\ queries = 0
    /\ observed = NotQueried
    /\ last = NoOutcome
    /\ pc = "running"
    /\ matched_at = 0

\* driver.rs:226-252: one attempt of assert_eventual_wallet_amount
AttemptWallet ==
    /\ op = "wallet"
    /\ pc = "running"
    /\ \E q \in QueryResults : RetryStep(q, BalanceEqualsTarget(q, token_amount))
    /\ UNCHANGED <<gasVars, priceVars>>

\* driver.rs:260-311: one attempt of assert_eventual_escrowed_amount_ics29
AttemptEscrow ==
    /\ op = "escrow"
    /\ pc = "running"
    /\ \E q \in QueryResults :
          RetryStep(q, EscrowPredicate(q, token_amount, recv_fee, ack_fee, timeout_fee,
                                       overflow_checks))
    /\ UNCHANGED <<gasVars, priceVars>>

VerifierNext == AttemptWallet \/ AttemptEscrow

VerifierSpec == VerifierInit /\ [][VerifierNext]_vars

\* The loop runs on one flow of control and sleeps a bounded interval between
\* attempts: an attempt that can be made is eventually made.
FairVerifierSpec == VerifierSpec /\ WF_vars(VerifierNext)

\* ---------------------------------------------------------------- PriceSpec

\* Escalation factors: rationals num / den, never below 1.
Multipliers ==
    {m \in [num : 1..(2 * MaxMul), den : 1..2] : m.den <= m.num /\ m.num <= m.den * MaxMul}

\* An enabled policy has its base price at or below its ceiling; a disabled
\* policy carries a ceiling it never reads.
Policies ==
    {pol \in [enabled : BOOLEAN, multiplier : Multipliers, max : 0..MaxPrice,
              base : 0..MaxPrice] : pol.enabled => pol.base <= pol.max}

PriceInit ==
    /\ GasIdle
    /\ VerifierIdle
    /\ policy \in Policies
    /\ current_price = initial_price(policy)
    /\ prev_price = initial_price(policy)
    /\ phase = "idle"
    /\ submission = 0
    /\ retries = 0

\* A brand-new logical submission begins: the price restarts at the base.
BeginSubmission ==
    /\ phase = "idle"
    /\ submission < MaxSubmissions
    /\ phase' = "inflight"
    /\ submission' = submission + 1
    /\ retries' = 0
    /\ current_price' = initial_price(policy)
    /\ prev_price' = initial_price(policy)
    /\ UNCHANGED <<policy, gasVars, verifierVars>>

\* A broadcast attempt of the submission in flight failed as underpriced or out
\* of gas, and escalation still raises the price: the next attempt escalates.
Underpriced ==
    /\ phase = "inflight"
    /\ retries < MaxRetries
    /\ escalate(policy, current_price) # current_price
    /\ prev_price' = current_price
    /\ current_price' = escalate(policy, current_price)
    /\ retries' = retries + 1
    /\ UNCHANGED <<policy, phase, submission, gasVars, verifierVars>>

\* The attempt failed and escalation returns the price unchanged (the ceiling,
\* or a disabled policy): fatal for the submission, which is given up.
EscalationExhausted ==
    /\ phase = "inflight"
    /\ escalate(policy, current_price) = current_price
    /\ phase' = "idle"
    /\ UNCHANGED <<policy, current_price, prev_price, submission, retries, gasVars,
                   verifierVars>>

\* The submission succeeds (or runs out of its retry budget): its price state
\* is discarded with it.
SubmissionEnds ==
    /\ phase = "inflight"
    /\ phase' = "idle"
    /\ UNCHANGED <<policy, current_price, prev_price, submission, retries, gasVars,
                   verifierVars>>

PriceNext == BeginSubmission \/ Underpriced \/ EscalationExhausted \/ SubmissionEnds

PriceSpec == PriceInit /\ [][PriceNext]_vars

\* ------------------------------------------------------------------ claims

\* The unwrapped (mathematical) fee sums of the call in progress.
TrueLegacyFees == recv_fee + ack_fee + timeout_fee

TrueCurrentFees == Max(recv_fee + ack_fee, timeout_fee)

FailureKinds == {"QueryErr", "Mismatch", "SubErr"}

\* C1: in assert_eventual_escrowed_amount_ics29, once an attempt has detected
\* the underflow of an escrow subtraction (its predicate returned the
\* subtraction error), the call has failed: it is not left running for the
\* remaining attempts of the budget.
C1_UnderflowAbortsImmediately ==
    (op = "escrow" /\ last.kind = "SubErr") => pc \notin {"running", "ok"}

\* C2: for a gross amount and fees with recv_fee + ack_fee + timeout_fee <=
\* gross, an attempt of assert_eventual_escrowed_amount_ics29 whose query
\* answered succeeds iff the observed balance is gross - (recv + ack + timeout)
\* or gross - max(recv + ack, timeout), and the call returns an error only
\* after all attempts.
C2_EscrowSuccessIffEitherCandidate ==
    (op = "escrow" /\ TrueLegacyFees <= token_amount /\ tries > 0) =>
        /\ pc \in {"running", "ok", "exhausted"}
        /\ observed # QueryError =>
              (last.kind = "Ok" <=>
                  observed \in {token_amount - TrueLegacyFees,
                                token_amount - TrueCurrentFees})
        /\ pc = "ok" <=> last.kind = "Ok"
        /\ pc = "exhausted" => tries = WAIT_WALLET_AMOUNT_ATTEMPTS

\* C3 (safety part): the predicate is never invoked more often than the budget
\* of 90 attempts, the call runs on only while attempts are left, and it ends
\* exhausted exactly when all 90 invocations failed.
C3_Bounded ==
    op \in {"wallet", "escrow"} =>
        /\ tries <= WAIT_WALLET_AMOUNT_ATTEMPTS
        /\ pc = "running" => tries < WAIT_WALLET_AMOUNT_ATTEMPTS
        /\ pc = "exhausted" <=>
              (tries = WAIT_WALLET_AMOUNT_ATTEMPTS /\ last.kind \in FailureKinds)

C5_DefaultGasWithinMaxGas ==
    gas_config.derived => gas_config.default_gas <= gas_config.max_gas

\* C6: when a u128 fee sum of the escrow predicate does not fit 128 bits, the
\* attempt that evaluates it reports the overflow as a computation error; it
\* neither panics nor goes on with a wrapped sum.
C6_OverflowSurfacedAsError ==
    (/\ op = "escrow"
     /\ FeeSumOverflows(recv_fee, ack_fee, timeout_fee)
     /\ tries > 0
     /\ observed # QueryError) => last.kind = "OverflowErr"

\* C7: max_fee_from_config(cfg) has gas_limit = max_gas_from_config(cfg), one
\* coin equal to calculate_fee(max_gas_from_config(cfg), cfg.gas_price), an
\* empty payer, and as granter the configured granter or "" when absent.
C7_MaxFee ==
    gas_config.derived =>
        /\ gas_config.max_fee.gas_limit = unwrap_or(config.max_gas, DEFAULT_MAX_GAS)
        /\ Len(gas_config.max_fee.amount) = 1
        /\ gas_config.max_fee.amount[1] =
              calculate_fee(unwrap_or(config.max_gas, DEFAULT_MAX_GAS), config.gas_price)
        /\ gas_config.max_fee.payer = ""
        /\ gas_config.max_fee.granter =
              (IF config.fee_granter.some THEN config.fee_granter.val ELSE "")

C7_Witness ==
    /\ gas_config.derived
    /\ config.max_gas.some
    /\ config.max_gas.val # DEFAULT_MAX_GAS
    /\ config.default_gas.some
    /\ config.default_gas.val # config.max_gas.val
    /\ config.fee_granter.some
    /\ config.fee_granter.val # ""
    /\ gas_config.max_fee.amount[1].amount > 0

\* C8: with default_gas unset, the derived default_gas is max_gas_from_config:
\* the configured max_gas, or 400000 when that is unset too; with default_gas
\* set, it is the configured value.
C8_DefaultGas ==
    gas_config.derived =>
        /\ ~config.default_gas.some =>
              /\ gas_config.default_gas = gas_config.max_gas
              /\ gas_config.default_gas =
                    (IF config.max_gas.some THEN config.max_gas.val ELSE DEFAULT_MAX_GAS)
        /\ config.default_gas.some => gas_config.default_gas = config.default_gas.val

C8_Witness ==
    /\ gas_config.derived
    /\ ~config.default_gas.some
    /\ config.max_gas.some
    /\ config.max_gas.val # DEFAULT_MAX_GAS
    /\ gas_config.default_gas = config.max_gas.val

C10_LegacyNeverAboveCurrent ==
    (op = "escrow" /\ ~FeeSumOverflows(recv_fee, ack_fee, timeout_fee)) =>
        /\ LegacyFees(recv_fee, ack_fee, timeout_fee) >=
              CurrentFees(recv_fee, ack_fee, timeout_fee)
        /\ checked_sub(token_amount, LegacyFees(recv_fee, ack_fee, timeout_fee)).some =>
              checked_sub(token_amount, CurrentFees(recv_fee, ack_fee, timeout_fee)).some
        /\ last.kind = "SubErr" =>
              /\ last.site = "legacy"
              /\ last.lhs = token_amount
              /\ last.rhs = TrueLegacyFees

C10_Witness ==
    /\ op = "escrow"
    /\ ~FeeSumOverflows(recv_fee, ack_fee, timeout_fee)
    /\ timeout_fee > recv_fee + ack_fee
    /\ last.kind = "SubErr"
    /\ tries > 1

====
